---- MODULE Spec2Model ----
(***************************************************************************)
(* pyguard: the request interception protocol of                           *)
(* RequestHandler._handle_request (protocol.py), the event dispatcher of   *)
(* Client.dispatch / Client._run_event (client.py) and the backend client  *)
(* HTTPClient.request with its retry loop and header filter (http.py).     *)
(***************************************************************************)
EXTENDS Integers, Sequences, FiniteSets, TLC

\* ------------------------------------------------------------------ bounds
\* longest header list a backend response carries
MaxHeaders == 2
\* most control calls one run of a hook makes
MaxHookCalls == 2
\* most frames one side of a WebSocket relay delivers
MaxFrames == 2
MaxClears == 1

\* ------------------------------------------------- constants of the program
\* http.py: for tries in range(5)
MaxTries == 5
\* http.py: if tries < 4 and exc.errno in {54, 10054}
LastRetry == 4

RetryErrnos == {54, 10054}

\* ------------------------------------------------------------------ headers
None == "None"

HOP_BY_HOP_HEADERS ==
    {"connection", "keep-alive", "proxy-authenticate", "proxy-authorization",
     "te", "trailers", "transfer-encoding", "upgrade"}

\* header names as they arrive on the wire, in the casing the peer chose
HeaderNames == {"Connection", "Set-Cookie", "Host", "X-Id"}
HeaderValues == {"a", "b"}

\* the names the header filter is applied to: every hop-by-hop name in some
\* casing, Connection and Host in several, and names that are not hop-by-hop
WireNames ==
    HeaderNames \cup
    {"connection", "CONNECTION", "Keep-Alive", "Proxy-Authenticate",
     "Proxy-Authorization", "TE", "Trailers", "Transfer-Encoding", "upgrade",
     "host", "HOST"}

\* str.lower() on the names above
lower(name) ==
    CASE name = "Connection" -> "connection"
      [] name = "Set-Cookie" -> "set-cookie"
      [] name = "Host" -> "host"
      [] name = "X-Id" -> "x-id"
      [] name = "CONNECTION" -> "connection"
      [] name = "Keep-Alive" -> "keep-alive"
      [] name = "Proxy-Authenticate" -> "proxy-authenticate"
      [] name = "Proxy-Authorization" -> "proxy-authorization"
      [] name = "TE" -> "te"
      [] name = "Trailers" -> "trailers"
      [] name = "Transfer-Encoding" -> "transfer-encoding"
      [] name = "HOST" -> "host"
      [] name = "Upgrade" -> "upgrade"
      [] OTHER -> name

SeqsUpTo(S, n) == UNION {[1..k -> S] : k \in 0..n}

HeaderLists == SeqsUpTo(HeaderNames \X HeaderValues, MaxHeaders)

RECURSIVE SelectPairs(_, _)
\* the entries of a header list whose lower-cased name is not in excluded, in order
SelectPairs(headers, excluded) ==
    IF headers = <<>> THEN <<>>
    ELSE IF lower(Head(headers)[1]) \in excluded
         THEN SelectPairs(Tail(headers), excluded)
         ELSE <<Head(headers)>> \o SelectPairs(Tail(headers), excluded)

\* d[k] = v on a Python dict kept as its item list: an existing key keeps its
\* position and takes the new value, a new key is appended
DictSet(d, k, v) ==
    IF \E i \in 1..Len(d) : d[i][1] = k
    THEN [i \in 1..Len(d) |-> IF d[i][1] = k THEN <<k, v>> ELSE d[i]]
    ELSE Append(d, <<k, v>>)

RECURSIVE DictOf(_, _)
\* the dict a comprehension {k: v for k, v in items} builds on top of d
DictOf(items, d) ==
    IF items = <<>> THEN d
    ELSE DictOf(Tail(items), DictSet(d, Head(items)[1], Head(items)[2]))

\* header lists handed to the filter
FilterInputs == SeqsUpTo(WireNames \X HeaderValues, MaxHeaders)

\* the entries of a header list whose name, as written, is not in excluded
SelectPairsExact(headers, excluded) ==
    SelectSeq(headers, LAMBDA kv : kv[1] \notin excluded)

\* a header list with every name lower-cased
LowerKeys(headers) ==
    [i \in 1..Len(headers) |-> <<lower(headers[i][1]), headers[i][2]>>]

\* the filter comparing names as written, without lower-casing them
filter_headers_no_lower(headers, include_host) ==
    LET excluded == IF include_host THEN HOP_BY_HOP_HEADERS \cup {"host"}
                    ELSE HOP_BY_HOP_HEADERS
    IN  DictOf(SelectPairsExact(headers, excluded), <<>>)

\* the filter comparing names as written and lower-casing the names it keeps
filter_headers_lower_keys(headers, include_host) ==
    LET excluded == IF include_host THEN HOP_BY_HOP_HEADERS \cup {"host"}
                    ELSE HOP_BY_HOP_HEADERS
    IN  DictOf(LowerKeys(SelectPairsExact(headers, excluded)), <<>>)

\* HTTPClient._filter_headers
_filter_headers(headers, include_host) ==
    LET excluded == IF include_host THEN HOP_BY_HOP_HEADERS \cup {"host"}
                    ELSE HOP_BY_HOP_HEADERS
    IN  DictOf(SelectPairs(headers, excluded), <<>>)

\* Proxy._prepare_headers: the outbound request's headers, host excluded
_prepare_headers(headers) ==
    LET hop_by_hop == {"connection", "keep-alive", "proxy-authenticate",
                       "proxy-authorization", "te", "trailers",
                       "transfer-encoding", "upgrade", "host"}
    IN  DictOf(SelectPairs(headers, hop_by_hop), <<>>)

\* Proxy._prepare_response_headers: the backend response's headers, host kept
_prepare_response_headers(headers) ==
    LET hop_by_hop == {"connection", "keep-alive", "proxy-authenticate",
                       "proxy-authorization", "te", "trailers",
                       "transfer-encoding", "upgrade"}
    IN  DictOf(SelectPairs(headers, hop_by_hop), <<>>)

\* ---------------------------------------------------------------- responses
NoResponse == [status |-> 0, reason |-> "", headers |-> <<>>, body |-> ""]

\* responses a hook passes to respond()
HookResponses ==
    {[status |-> 403, reason |-> "Forbidden", headers |-> <<>>, body |-> "blocked"],
     [status |-> 429, reason |-> "Too Many Requests",
      headers |-> <<<<"X-Id", "a">>>>, body |-> "slow down"]}

\* responses the backend sends
BackendResponses ==
    {[status |-> 200, reason |-> "OK", headers |-> hs, body |-> "ok"] :
        hs \in HeaderLists}

\* inbound requests
Requests ==
    {[method |-> "GET", path_qs |-> "/status?x=1",
      headers |-> <<<<"Host", "a">>, <<"Connection", "b">>, <<"X-Id", "a">>>>],
     [method |-> "POST", path_qs |-> "/", headers |-> <<>>]}

NoRequest == [method |-> "", path_qs |-> "", headers |-> <<>>]

TargetUrls == {"http://backend"}

\* --------------------------------------------------------------- exceptions
NoExc == [type |-> "none", errno |-> 0]
OSError(n) == [type |-> "OSError", errno |-> n]
RequestNotHandled == [type |-> "RequestNotHandled", errno |-> 0]
RequestForwardExc == [type |-> "RequestForward", errno |-> 0]

\* what one attempt of session.request / response.read can raise: a connection
\* reset as BSD (54) and Windows (10054) number it, another OSError (104), and an
\* exception that is no OSError
TransportErrors ==
    {OSError(54), OSError(10054), OSError(104),
     [type |-> "ClientPayloadError", errno |-> 0]}

\* ------------------------------------------------------------------- hooks
Events == {"request", "forward"}
HandlerIds == {"h1", "h2"}

\* the calls a running hook makes: the control calls on its argument, an
\* ordinary exception, and work that returns to the hook ("pass")
HookCalls ==
    {[op |-> "respond", response |-> r, url |-> ""] : r \in HookResponses}
    \cup {[op |-> "forward", response |-> NoResponse, url |-> u] : u \in TargetUrls}
    \cup {[op |-> "raise", response |-> NoResponse, url |-> ""],
          [op |-> "pass", response |-> NoResponse, url |-> ""]}

Returned == [kind |-> "return", response |-> NoResponse, url |-> ""]

\* Request.respond / Response.respond: raise RequestAborted(response)
respond(response) == [kind |-> "RequestAborted", response |-> response, url |-> ""]

\* Request.forward: raise RequestForward(url, request)
forward(url) == [kind |-> "RequestForward", response |-> NoResponse, url |-> url]

HookError == [kind |-> "Exception", response |-> NoResponse, url |-> ""]

\* asyncio.CancelledError thrown into the hook at the await it is suspended in
Cancelled == [kind |-> "CancelledError", response |-> NoResponse, url |-> ""]
CancelledError == [type |-> "CancelledError", errno |-> 0]

\* what a call of the hook constructs
signal_of(call) ==
    CASE call.op = "respond" -> respond(call.response)
      [] call.op = "forward" -> forward(call.url)
      [] call.op = "raise" -> HookError
      [] OTHER -> Returned

\* respond() and forward() returning to the hook instead of raising
raises_errors_only(call) == call.op = "raise"

\* whether the call ends the hook: respond() and forward() raise (http.py)
raises(call) == call.op \in {"respond", "forward", "raise"}

\* Client._run_event with the control signals caught like any other exception
run_event_swallow(signal) == Returned

\* Client._run_event with no except clause: whatever the hook raised leaves it
run_event_propagate(signal) == signal

\* Client._run_event: what the dispatch caller sees of the hook's outcome
_run_event(signal) ==
    IF signal.kind \in {"RequestAborted", "RequestForward"} THEN signal
    ELSE Returned

\* on_error called for whatever the hook raised, control signals included
on_error_calls_any(signal) == IF signal.kind # "return" THEN 1 ELSE 0

\* on_error called for a cancellation as for an ordinary exception
on_error_calls_cancelled(signal) ==
    IF signal.kind \in {"Exception", "CancelledError"} THEN 1 ELSE 0

\* Client._run_event: the calls of on_error the hook's outcome causes
on_error_calls(signal) == IF signal.kind = "Exception" THEN 1 ELSE 0

\* Client.on_error(event_method, error, *args): the call as it is received
on_error(event_method, error, arg) ==
    [event_method |-> event_method, error |-> error, arg |-> arg]

\* ------------------------------------------------------------ backend client
\* _get_session handing out the session it has, closed or not
get_session_keep_closed(s) == IF s = "none" THEN "open" ELSE s

\* HTTPClient._get_session: the open session, a new one when none is open
_get_session(s) == IF s = "none" \/ s = "closed" THEN "open" ELSE s

\* the retry test with the attempt count left out
should_retry_always(tries, exc) ==
    exc.type = "OSError" /\ exc.errno \in RetryErrnos

\* the retry test with the errno left out: every OSError is retried
should_retry_any_oserror(tries, exc) ==
    exc.type = "OSError" /\ tries < LastRetry

\* HTTPClient.request: except OSError as exc: if tries < 4 and exc.errno in {54, 10054}
should_retry(tries, exc) ==
    exc.type = "OSError" /\ tries < LastRetry /\ exc.errno \in RetryErrnos

\* a backoff that grows by one second instead of two
backoff_delay_linear(tries) == 1 + tries

\* HTTPClient.request: asyncio.sleep(1 + tries * 2)
backoff_delay(tries) == 1 + tries * 2

\* how the attempt log names what an attempt ended with
AttemptClass(exc) ==
    IF exc.type = "OSError" /\ exc.errno \in RetryErrnos THEN "reset" ELSE exc.type

\* HTTPClient.request: the web.Response built from the backend's response
web_response(raw) ==
    [status |-> raw.status, reason |-> raw.reason,
     headers |-> _filter_headers(raw.headers, FALSE), body |-> raw.body]

\* ------------------------------------------------------ one exchange's state
\* A RequestHandler (one per connection) between two of its suspension points.
\*   pc           idle, request_hook, backend, backoff, forward_hook, done
\*   in_progress  _request_in_progress
\*   events       the calls and returns of the exchange, in order
\*   invoked      the hooks run, as <<event, handler>>
\*   hook_calls   the calls the running hook has made and returned from
\*   emitted      the control signals the hooks constructed, as <<event, signal>>
\*   finished     the responses finish_response was called with
\*   raised       the exception that left _handle_request
\*   errors       the calls of on_error
\*   on_error_log the arguments of each call of on_error
\*   outcomes     what each run of a hook gave the caller of dispatch, as
\*                <<event, signal>>
\*   cancelled_at where the exchange was when its task was cancelled
\*   waiter       _handler_waiter: none, pending, resolved
\*   tries, attempts, slept   HTTPClient.request's loop counter, what each
\*                attempt ended with, the seconds of each backoff sleep
\*   sent         the request handed to session.request
\*   backend, forward   the backend's response and the web.Response made of it
NoSent == [method |-> "", base |-> "", path_qs |-> "", headers |-> <<>>]

Fresh ==
    [pc |-> "idle", in_progress |-> FALSE, request |-> NoRequest,
     events |-> <<>>, invoked |-> <<>>, hook_calls |-> 0, emitted |-> <<>>,
     req_signal |-> "none", fwd_signal |-> "none", finished |-> <<>>, raised |-> NoExc, errors |-> 0,
     tries |-> 0, attempts |-> <<>>, slept |-> <<>>, sent |-> NoSent,
     backend |-> NoResponse, forward |-> NoResponse,
     on_error_log |-> <<>>, outcomes |-> <<>>, cancelled_at |-> "none",
     waiter |-> "none"]

Log(e, tag) == [e EXCEPT !.events = Append(@, tag)]

\* an exit from _handle_request that skips the finally block
finally_skipped(e) == [e EXCEPT !.pc = "done"]

\* protocol.py finally: the flag is cleared on every exit and a waiter that
\* is set gets its result
Finally(e) ==
    [e EXCEPT !.in_progress = FALSE, !.pc = "done",
              !.waiter = IF @ = "pending" THEN "resolved" ELSE @]

\* RequestHandler.finish_response(request, resp, start_time)
finish_response(e, resp) ==
    [Log(e, "finish_response") EXCEPT !.finished = Append(@, resp)]

\* return await self.finish_response(...)
ReturnResponse(e, resp) == Finally(finish_response(e, resp))

\* an exception leaves _handle_request
Raise(e, exc) == Finally([e EXCEPT !.raised = exc])

\* HTTPClient.request up to its first attempt
http_request(e, method, base, path_qs, headers) ==
    [e EXCEPT !.pc = "backend", !.tries = 0,
              !.sent = [method |-> method, base |-> base, path_qs |-> path_qs,
                        headers |-> _filter_headers(headers, TRUE)]]

\* ClientProxy.forward(url, request): the plain HTTP path hands the request to
\* the backend client
proxy_forward(e, url, req) ==
    http_request(Log(e, "proxy_forward"), req.method, url, req.path_qs, req.headers)

SignalName(signal) ==
    CASE signal.kind = "RequestAborted" -> "RespondNow"
      [] signal.kind = "RequestForward" -> "ForwardTo"
      [] OTHER -> "Unhandled"

\* the request path forwarding to the backend when the hook gave no signal
after_request_dispatch_default_forward(e, signal) ==
    LET d == [Log(e, "request_done") EXCEPT !.req_signal = SignalName(signal)]
    IN  CASE signal.kind = "RequestAborted" -> ReturnResponse(d, signal.response)
          [] OTHER -> proxy_forward(d, "http://backend", d.request)

\* protocol.py lines 78-91: what follows await dispatch('request', request)
after_request_dispatch(e, signal) ==
    LET d == [Log(e, "request_done") EXCEPT !.req_signal = SignalName(signal)]
    IN  CASE signal.kind = "RequestAborted" -> ReturnResponse(d, signal.response)
          [] signal.kind = "RequestForward" -> proxy_forward(d, signal.url, d.request)
          [] OTHER -> Raise(d, RequestNotHandled)

\* the forward path with the inner RequestAborted clause left out
after_forward_dispatch_no_override(e, signal) ==
    LET d == [Log(e, "forward_done") EXCEPT
                 !.fwd_signal = IF signal.kind = "return" THEN "NoSignal"
                                ELSE SignalName(signal)]
    IN  CASE signal.kind = "RequestForward" -> Raise(d, RequestForwardExc)
          [] OTHER -> ReturnResponse(d, d.forward)

\* the forward path answering the forward hook's RequestForward with another
\* call of the proxy
after_forward_dispatch_reforward(e, signal) ==
    LET d == [Log(e, "forward_done") EXCEPT
                 !.fwd_signal = IF signal.kind = "return" THEN "NoSignal"
                                ELSE SignalName(signal)]
    IN  CASE signal.kind = "RequestAborted" -> ReturnResponse(d, signal.response)
          [] signal.kind = "RequestForward" -> proxy_forward(d, signal.url, d.request)
          [] OTHER -> ReturnResponse(d, d.forward)

\* protocol.py lines 93-105: what follows await dispatch('forward', forward)
after_forward_dispatch(e, signal) ==
    LET d == [Log(e, "forward_done") EXCEPT
                 !.fwd_signal = IF signal.kind = "return" THEN "NoSignal"
                                ELSE SignalName(signal)]
    IN  CASE signal.kind = "RequestAborted" -> ReturnResponse(d, signal.response)
          [] signal.kind = "RequestForward" -> Raise(d, RequestForwardExc)
          [] OTHER -> ReturnResponse(d, d.forward)

\* dispatch running the handler bound first, whatever is registered now
dispatch_stale_handler(e, event, reg) ==
    IF reg[event] = None
    THEN Log(e, event \o "_dispatch")
    ELSE [Log(e, event \o "_dispatch") EXCEPT
             !.pc = event \o "_hook",
             !.invoked = Append(@, <<event, "h1">>)]

\* dispatch treating a missing handler as one to run
dispatch_always_invokes(e, event, reg) ==
    [Log(e, event \o "_dispatch") EXCEPT
        !.pc = event \o "_hook",
        !.invoked = Append(@, <<event, reg[event]>>)]

\* Client.dispatch: getattr(self, 'on_' + event) and, in a task, await the hook
\* (pc moves to the hook); with no handler the AttributeError is swallowed and
\* dispatch returns at once
dispatch(e, event, reg) ==
    IF reg[event] = None
    THEN Log(e, event \o "_dispatch")
    ELSE [Log(e, event \o "_dispatch") EXCEPT
             !.pc = event \o "_hook",
             !.invoked = Append(@, <<event, reg[event]>>)]

\* the forward response finalized before the forward hook has been dispatched
after_backend_response_early_finish(e, raw, reg) ==
    LET d == [Log(e, "proxy_done") EXCEPT
                 !.backend = raw, !.forward = web_response(raw)]
        x == dispatch(finish_response(d, d.forward), "forward", reg)
    IN  IF x.pc = "forward_hook" THEN x ELSE after_forward_dispatch(x, Returned)

\* protocol.py lines 91-94: proxy.forward returned the backend's response
after_backend_response(e, raw, reg) ==
    LET d == [Log(e, "proxy_done") EXCEPT
                 !.backend = raw, !.forward = web_response(raw)]
        x == dispatch(d, "forward", reg)
    IN  IF x.pc = "forward_hook" THEN x ELSE after_forward_dispatch(x, Returned)

\* protocol.py lines 72-79: a request arrives and the request event is dispatched
_handle_request(e, req, reg) ==
    LET d == [e EXCEPT !.in_progress = TRUE, !.request = req]
        x == dispatch(d, "request", reg)
    IN  IF x.pc = "request_hook" THEN x ELSE after_request_dispatch(x, Returned)

\* HTTPClient.request: one pass of the loop body, the attempt failing with exc
attempt_failed(e, exc) ==
    LET d == [e EXCEPT !.attempts = Append(@, AttemptClass(exc))]
    IN  IF should_retry(d.tries, exc)
        THEN [d EXCEPT !.pc = "backoff", !.slept = Append(@, backoff_delay(d.tries))]
        ELSE Raise(d, exc)

\* HTTPClient.request: the sleep is over, continue with the next value of tries
next_attempt(e) ==
    IF e.tries + 1 < MaxTries
    THEN [e EXCEPT !.pc = "backend", !.tries = @ + 1]
    ELSE Raise([e EXCEPT !.tries = @ + 1], [type |-> "RuntimeError", errno |-> 0])

\* ------------------------------------------------ Proxy and WebSocketHandler
\* Header values are kept as sequences of characters, so that lower-casing,
\* equality and substring tests are computed on them.
websocket == <<"w", "e", "b", "s", "o", "c", "k", "e", "t">>
upgrade == <<"u", "p", "g", "r", "a", "d", "e">>

\* values of the Upgrade header a client sends
UpgradeValues ==
    {websocket,
     <<"W", "e", "b", "S", "o", "c", "k", "e", "t">>,
     <<"w", "e", "b", "s", "o", "c", "k", "e", "t", "s">>,
     <<"h", "2", "c">>}

\* values of the Connection header a client sends
ConnectionValues ==
    {upgrade,
     <<"U", "p", "g", "r", "a", "d", "e">>,
     <<"k", "e", "e", "p", "-", "a", "l", "i", "v", "e", ",", " ",
       "U", "p", "g", "r", "a", "d", "e">>,
     <<"k", "e", "e", "p", "-", "a", "l", "i", "v", "e">>,
     <<"u", "p", "g", "r", "a", "d", "e", "d">>,
     <<"c", "l", "o", "s", "e">>}

\* str.lower() on one character
lower_char(c) ==
    CASE c = "W" -> "w"
      [] c = "S" -> "s"
      [] c = "U" -> "u"
      [] OTHER -> c

\* str.lower() on a header value
str_lower(v) == [i \in 1..Len(v) |-> lower_char(v[i])]

\* Python's  sub in v  on strings
str_contains(v, sub) ==
    \E i \in 0..(Len(v) - Len(sub)) : SubSeq(v, i + 1, i + Len(sub)) = sub

\* request.headers.get(name, ""): the value of the first header of that name,
\* names compared without regard to case
headers_get(headers, name) ==
    LET idx == {i \in 1..Len(headers) : lower(headers[i][1]) = lower(name)}
    IN  IF idx = {} THEN <<>>
        ELSE headers[CHOOSE i \in idx : \A j \in idx : i <= j][2]

\* WebSocketHandler.is_websocket_request
is_websocket_request(request) ==
    LET up == str_lower(headers_get(request.headers, "Upgrade"))
        connection == str_lower(headers_get(request.headers, "Connection"))
    IN  up = websocket /\ str_contains(connection, upgrade)

\* Proxy.is_websocket
is_websocket(request) ==
    /\ str_lower(headers_get(request.headers, "Upgrade")) = websocket
    /\ str_contains(str_lower(headers_get(request.headers, "Connection")), upgrade)

\* the header list of a request carrying the given Upgrade and Connection
\* values; the empty value stands for a request without that header
UpgradeHeaders(up, conn) ==
    <<<<"Host", "a">>>>
    \o (IF up = <<>> THEN <<>> ELSE <<<<"Upgrade", up>>>>)
    \o (IF conn = <<>> THEN <<>> ELSE <<<<"Connection", conn>>>>)
    \o <<<<"X-Id", "b">>>>

\* urls are sequences of characters too, so that str.replace is computed
http_scheme == <<"h", "t", "t", "p", ":", "/", "/">>
https_scheme == <<"h", "t", "t", "p", "s", ":", "/", "/">>
ws_scheme == <<"w", "s", ":", "/", "/">>
wss_scheme == <<"w", "s", "s", ":", "/", "/">>

\* the path and query of an upgrade request without a url in it
plain_path_qs == <<"/", "w", "?", "r", "=", "1">>

\* paths and queries of inbound upgrade requests: plain, and with a query
\* value that is itself a url
PathQueries ==
    {plain_path_qs,
     <<"/", "w", "?", "u", "=">> \o http_scheme \o <<"x">>,
     <<"/", "w", "?", "u", "=">> \o https_scheme \o <<"x">>}

\* Python's str.replace(old, new): every occurrence, left to right
RECURSIVE str_replace(_, _, _)
str_replace(v, old, new) ==
    IF Len(v) < Len(old) THEN v
    ELSE IF SubSeq(v, 1, Len(old)) = old
         THEN new \o str_replace(SubSeq(v, Len(old) + 1, Len(v)), old, new)
         ELSE <<Head(v)>> \o str_replace(Tail(v), old, new)

\* requests arriving at Proxy.forward
ProxyRequests ==
    {[method |-> m, path_qs |-> plain_path_qs, headers |-> UpgradeHeaders(up, conn),
      body_exists |-> b, body |-> IF b THEN "payload" ELSE ""] :
        m \in {"GET", "POST"}, b \in BOOLEAN,
        up \in UpgradeValues \cup {<<>>}, conn \in ConnectionValues \cup {<<>>}}

\* what the backend answers to a plain request; a redirect is answered like
\* any other response, since allow_redirects is False
ProxyBackendResponses ==
    {[status |-> 200, reason |-> "OK",
      headers |-> <<<<"Connection", "a">>, <<"X-Id", "b">>>>, chunks |-> <<"ok">>],
     [status |-> 302, reason |-> "Found",
      headers |-> <<<<"X-Id", "a">>>>, chunks |-> <<>>]}

\* self.target_url as it is configured
target_url == http_scheme \o <<"b">>
secure_target_url == https_scheme \o <<"b">>
TargetBases == {target_url, secure_target_url}

\* Proxy.forward taking the plain path for every request
forward_path_always_http(request) == "http"

\* Proxy.forward: if self.is_websocket(request): return await self.forward_ws(request)
forward_path(request) == IF is_websocket(request) THEN "ws" ELSE "http"

\* session.request(method=..., url=target, headers=..., data=body, allow_redirects=False)
proxy_http_request(request) ==
    [method |-> request.method, url |-> target_url \o request.path_qs,
     headers |-> _prepare_headers(request.headers),
     data |-> IF request.body_exists THEN request.body ELSE None,
     allow_redirects |-> FALSE]

\* the web.StreamResponse Proxy.forward writes from the backend's response
proxy_response(raw) ==
    [status |-> raw.status, reason |-> raw.reason,
     headers |-> _prepare_response_headers(raw.headers), written |-> raw.chunks,
     eof |-> TRUE]

NoProxyRequest ==
    [method |-> "", path_qs |-> <<>>, headers |-> <<>>, body_exists |-> FALSE, body |-> ""]

NoProxyResponse ==
    [status |-> 0, reason |-> "", headers |-> <<>>, written |-> <<>>, eof |-> FALSE]

\* ---------------------------------------------------------- WebSocket relay
\* The two sockets of a relay: ws_client is the connection opened to the
\* target, ws_server the upgraded connection of the inbound client.
Sides == {"ws_client", "ws_server"}
peer(s) == IF s = "ws_client" THEN "ws_server" ELSE "ws_client"

\* messages the iteration over a socket hands to the loop body
DataFrames == {[type |-> "TEXT", data |-> "a"], [type |-> "BINARY", data |-> "b"]}
OtherFrames == {[type |-> "PING", data |-> ""]}
ErrorFrame == [type |-> "ERROR", data |-> ""]
CloseFrame == [type |-> "CLOSE", data |-> ""]

\* One call of Proxy.forward or WebSocketHandler.forward.
\*   impl        the class whose method runs
\*   pc          idle, http, ws_connect, relaying, returned, raised, checked
\*   path        the branch Proxy.forward took: none, ws, http
\*   is_ws       what the upgrade test returned
\*   http_sent   the calls of session.request
\*   response    the StreamResponse written to the inbound client
\*   raised      the exception that left the method
\*   ws_connects the calls of session.ws_connect, as <<url, outcome>>
\*   prepared    ws_server.prepare(request) has been called
\*   received    per socket, the messages its pump's iteration yielded
\*   sent        per socket, the frames written to it
\*   closed      per socket, whether it is closed
\*   close_calls per socket, the calls of close() the relay made on it
\*   pump        per socket, the state of the pump reading it: none, running,
\*               close, ended, error, read_exception, write_exception
\*   target      self.target_url
\*   got_close, got_error   per socket, whether its remote end sent CLOSE,
\*               whether its iteration yielded ERROR
NoProxy ==
    [impl |-> "Proxy", pc |-> "idle", request |-> NoProxyRequest, path |-> "none",
     is_ws |-> FALSE, http_sent |-> <<>>, response |-> NoProxyResponse,
     target |-> target_url,
     raised |-> "none", ws_connects |-> <<>>, prepared |-> FALSE,
     received |-> [s \in Sides |-> <<>>], sent |-> [s \in Sides |-> <<>>],
     closed |-> [s \in Sides |-> FALSE], close_calls |-> [s \in Sides |-> 0],
     pump |-> [s \in Sides |-> "none"],
     got_close |-> [s \in Sides |-> FALSE], got_error |-> [s \in Sides |-> FALSE]]

Terminated(x, s) == x.pump[s] \notin {"none", "running"}

\* the target url of the relay. WebSocketHandler.forward:
\*   target_url = f"{self.target_url}{request.path_qs}"
\*   target_url.replace("http://", "ws://").replace("https://", "wss://")
\* Proxy.forward_ws connects to target_url + path_qs as it is
ws_target(x) ==
    IF x.impl = "WebSocketHandler"
    THEN str_replace(str_replace(x.target \o x.request.path_qs,
                                 http_scheme, ws_scheme),
                     https_scheme, wss_scheme)
    ELSE x.target \o x.request.path_qs

\* the inbound upgrade accepted before the outbound connection is attempted
ws_connect_failed_after_prepare(x) ==
    [x EXCEPT !.ws_connects = Append(@, <<ws_target(x), "failed">>),
              !.prepared = TRUE,
              !.pc = "raised", !.raised = "ClientConnectorError"]

\* session.ws_connect(target) raises: the exception leaves the method
\* (WebSocketHandler.forward logs it and re-raises)
ws_connect_failed(x) ==
    [x EXCEPT !.ws_connects = Append(@, <<ws_target(x), "failed">>),
              !.pc = "raised", !.raised = "ClientConnectorError"]

\* session.ws_connect(target) succeeds; ws_server.prepare(request); the two
\* pumps are handed to asyncio.gather
ws_connected(x) ==
    [x EXCEPT !.ws_connects = Append(@, <<ws_target(x), "ok">>),
              !.prepared = TRUE, !.pc = "relaying",
              !.pump = [s \in Sides |-> "running"]]

\* await <socket>.close() called by the relay
ws_close(x, s) ==
    [x EXCEPT !.closed[s] = TRUE, !.close_calls[s] = @ + 1]

\* a binary frame relayed with send_str
relay_frame_as_text(frame) == [frame EXCEPT !.type = "TEXT"]

\* send_str(msg.data) for TEXT, send_bytes(msg.data) for BINARY
relay_frame(frame) == frame

\* an exception raised in the pump reading s: WebSocketHandler's pumps close
\* the socket they write to; Proxy.forward_ws's pumps have no except clause
pump_exception(x, s, kind) ==
    IF x.impl = "WebSocketHandler"
    THEN [ws_close(x, peer(s)) EXCEPT !.pump[s] = kind]
    ELSE [x EXCEPT !.pump[s] = kind]

\* a pump that leaves its loop on a frame type it does not know
pump_body_break_on_unknown(x, s, msg) ==
    LET y == [x EXCEPT !.received[s] = Append(@, msg)]
    IN  CASE msg.type \in {"TEXT", "BINARY"} ->
                IF y.closed[peer(s)]
                THEN pump_exception(y, s, "write_exception")
                ELSE [y EXCEPT !.sent[peer(s)] = Append(@, relay_frame(msg))]
          [] msg.type = "CLOSE" ->
                [ws_close(y, peer(s)) EXCEPT !.pump[s] = "close"]
          [] OTHER -> [y EXCEPT !.pump[s] = "error"]

\* the loop body of the pump reading s, for a message the iteration yielded
pump_body(x, s, msg) ==
    LET y == [x EXCEPT !.received[s] = Append(@, msg)]
    IN  CASE msg.type \in {"TEXT", "BINARY"} ->
                IF y.closed[peer(s)]
                THEN pump_exception(y, s, "write_exception")
                ELSE [y EXCEPT !.sent[peer(s)] = Append(@, relay_frame(msg))]
          [] msg.type = "CLOSE" ->
                [ws_close(y, peer(s)) EXCEPT !.pump[s] = "close"]
          [] msg.type = "ERROR" /\ x.impl = "WebSocketHandler" ->
                [y EXCEPT !.pump[s] = "error"]
          [] OTHER -> y

\* asyncio.gather over the two pumps has a result: WebSocketHandler.forward
\* passes return_exceptions=True and returns ws_server; Proxy.forward_ws raises
\* the first exception of a pump. Leaving async with closes ws_client.
gather_done(x) ==
    LET y == [x EXCEPT !.closed["ws_client"] = TRUE]
        exc == {s \in Sides : x.pump[s] \in {"read_exception", "write_exception"}}
    IN  IF x.impl = "Proxy" /\ exc # {}
        THEN [y EXCEPT !.pc = "raised", !.raised = "Exception"]
        ELSE [y EXCEPT !.pc = "returned"]

\* whether asyncio.gather has its result
gather_ready(x) ==
    \/ \A s \in Sides : Terminated(x, s)
    \/ /\ x.impl = "Proxy"
       /\ \E s \in Sides : x.pump[s] \in {"read_exception", "write_exception"}

\* ------------------------------------------------------ the client lifecycle
\* The Client between two suspension points of the coroutines that start it,
\* close it and send backend requests.
\*   start         where start() is: idle, runner_setup, site_started, served
\*   loop_set      self.loop is not the _loop sentinel
\*   ready, shutdown   whether the events _ready and _shutdown are set
\*   site, runner  _site: None, started, stopped; _runner: None, setup, cleaned
\*   closing_task  _closing_task: 0 for None, else the number of the task
\*   tasks         every _close() task created: where it is (created,
\*                 site_stop, runner_cleanup, http_close: the await it is in,
\*                 done) and the steps it ran
\*   callers       each caller of close()/__aexit__: idle, awaiting, returned,
\*                 and the task it awaits
\*   clears        the calls of clear()
\*   pool          every ClientSession created: its state and the number of
\*                 HTTPClient.close calls completed before it was created
\*   closes        the calls of HTTPClient.close completed
\*   requests      each HTTPClient.request: idle, using, done, and the state
\*                 of the session _get_session gave it
Closers == {"close1", "close2", "aexit"}
BackendRequests == {"r1", "r2"}

NoClient ==
    [start |-> "idle", loop_set |-> FALSE, ready |-> FALSE, shutdown |-> FALSE,
     site |-> None, runner |-> None, closing_task |-> 0, tasks |-> <<>>,
     callers |-> [c \in Closers |-> [st |-> "idle", task |-> 0]],
     clears |-> 0, pool |-> <<>>, closes |-> 0,
     requests |-> [r \in BackendRequests |-> [st |-> "idle", got |-> "none"]]]

\* Client.is_ready: self._ready is not None and self._ready.is_set()
is_ready(c) == c.ready

\* Client.setup_runner: _async_setup() when the loop is the sentinel (new
\* _ready and _shutdown events), then the AppRunner is created and set up
setup_runner(c) ==
    LET d == IF c.loop_set THEN c
             ELSE [c EXCEPT !.loop_set = TRUE, !.ready = FALSE, !.shutdown = FALSE]
    IN  [d EXCEPT !.runner = "setup", !.start = "runner_setup"]

\* Client.serve up to the end of await self._site.start()
serve_site_start(c) == [c EXCEPT !.site = "started", !.start = "site_started"]

\* Client.serve after await self.dispatch("ready"): self._ready.set()
serve_ready(c) == [c EXCEPT !.ready = TRUE, !.start = "served"]

\* a task that is to run _close()
NewTask == [pc |-> "created", steps |-> <<>>]

\* close() creating a task on every call
close_always_new_task(c, who) ==
    [c EXCEPT !.tasks = Append(@, NewTask),
              !.closing_task = Len(c.tasks) + 1,
              !.callers[who] = [st |-> "awaiting", task |-> Len(c.tasks) + 1]]

\* Client.close up to its await: the task that exists is awaited, else a task
\* running _close() is created, stored and awaited
close(c, who) ==
    IF c.closing_task # 0
    THEN [c EXCEPT !.callers[who] = [st |-> "awaiting", task |-> c.closing_task]]
    ELSE [c EXCEPT !.tasks = Append(@, NewTask),
                   !.closing_task = Len(c.tasks) + 1,
                   !.callers[who] = [st |-> "awaiting", task |-> Len(c.tasks) + 1]]

\* Client.__aexit__: await self._closing_task if there is one, else self.close()
aexit(c, who) ==
    IF c.closing_task # 0
    THEN [c EXCEPT !.callers[who] = [st |-> "awaiting", task |-> c.closing_task]]
    ELSE close(c, who)

\* _close(): the await it reaches after the site has been dealt with
after_site(c) == IF c.runner # None THEN "runner_cleanup" ELSE "http_close"

\* _close(): the await it reaches after self._shutdown.set()
after_shutdown(c) == IF c.site # None THEN "site_stop" ELSE after_site(c)

\* HTTPClient.close: if self.__session: await self.__session.close()
http_close(s) == IF s = "none" THEN s ELSE "closed"

\* the pool after the session in use, if there is one, has been closed
pool_closed(pool, s) ==
    IF s = "none" \/ pool = <<>> THEN pool
    ELSE [pool EXCEPT ![Len(pool)].state = "closed"]

\* _close() of task k runs from the await it is in to its next one
close_step(c, k) ==
    LET pc == c.tasks[k].pc
        ran(step, next) == [pc |-> next, steps |-> Append(c.tasks[k].steps, step)]
    IN  CASE pc = "created" ->
               [c EXCEPT !.shutdown = TRUE,
                         !.tasks[k] = ran("shutdown_set", after_shutdown(c))]
          [] pc = "site_stop" ->
               [c EXCEPT !.site = "stopped",
                         !.tasks[k] = ran("site_stop", after_site(c))]
          [] pc = "runner_cleanup" ->
               [c EXCEPT !.runner = "cleaned",
                         !.tasks[k] = ran("runner_cleanup", "http_close")]
          [] OTHER ->
               [c EXCEPT !.closes = @ + 1, !.tasks[k] = ran("http_close", "done")]

\* HTTPClient.clear: a closed session is dropped
http_clear(s) == IF s = "closed" THEN "none" ELSE s

\* Client.clear
clear(c) ==
    [c EXCEPT !.site = None, !.runner = None, !.ready = FALSE, !.shutdown = FALSE,
              !.loop_set = FALSE, !.closing_task = 0, !.clears = @ + 1,
              !.start = IF @ = "served" THEN "idle" ELSE @]

\* -------------------------------------------------------------------- state
VARIABLES
    registry,   \* Client: event -> the handler set by Client.event, or None
    session,    \* HTTPClient.__session: none, open, closed
    handler,    \* connection -> the state of its RequestHandler's exchange
    filt,       \* one application of the header filter: argument and results
    px,         \* one call of Proxy.forward / WebSocketHandler.forward
    client      \* the Client's lifecycle: start, close, clear, backend sessions

vars == <<registry, session, handler, filt, px, client>>

Connections == {1}

\* the filter before it is called on anything
NoFilter ==
    [stage |-> "idle", headers |-> <<>>, include_host |-> FALSE,
     out |-> <<>>, again |-> <<>>, prepared |-> <<>>]

Init ==
    /\ registry = [ev \in Events |-> None]
    /\ session = "none"
    /\ handler = [h \in Connections |-> Fresh]
    /\ filt = NoFilter
    /\ px = NoProxy
    /\ client = NoClient

\* Client.event: setattr(self, coro.__name__, coro)
Register(ev, id) ==
    /\ registry[ev] # id
    /\ registry' = [registry EXCEPT ![ev] = id]
    /\ UNCHANGED <<session, handler, filt, px, client>>

\* _handle_request is entered with a parsed request
HandleRequest(h, req) ==
    /\ handler[h].pc = "idle"
    /\ handler' = [handler EXCEPT ![h] = _handle_request(@, req, registry)]
    /\ UNCHANGED <<registry, session, filt, px, client>>

\* Client._run_event: the hook is over with signal, and _handle_request goes on
hook_ends(e, signal) ==
    LET ev == IF e.pc = "request_hook" THEN "request" ELSE "forward"
        arg == IF e.pc = "request_hook" THEN e.request ELSE e.forward
        d == [e EXCEPT
                !.errors = @ + on_error_calls(signal),
                !.on_error_log = IF on_error_calls(signal) > 0
                                 THEN Append(@, on_error("on_" \o ev, signal, arg))
                                 ELSE @,
                !.outcomes = Append(@, <<ev, _run_event(signal)>>),
                !.hook_calls = 0]
    IN  IF e.pc = "request_hook"
        THEN after_request_dispatch(d, _run_event(signal))
        ELSE after_forward_dispatch(d, _run_event(signal))

\* the running hook makes a call
hook_call(e, call) ==
    LET ev == IF e.pc = "request_hook" THEN "request" ELSE "forward"
        d == IF call.op \in {"respond", "forward"}
             THEN [e EXCEPT !.emitted = Append(@, <<ev, signal_of(call)>>)]
             ELSE e
    IN  IF raises(call) THEN hook_ends(d, signal_of(call))
        ELSE [d EXCEPT !.hook_calls = @ + 1]

InHook(e) == e.pc \in {"request_hook", "forward_hook"}

\* await coro(*args): the hook of the exchange makes its next call
HookCall(h, call) ==
    /\ InHook(handler[h])
    /\ handler[h].hook_calls < MaxHookCalls
    /\ LET x == hook_call(handler[h], call)
       IN  /\ handler' = [handler EXCEPT ![h] = x]
           /\ session' = IF x.pc = "backend" THEN _get_session(session) ELSE session
    /\ UNCHANGED <<registry, filt, px, client>>

\* await coro(*args): the hook of the exchange returns
HookReturns(h) ==
    /\ InHook(handler[h])
    /\ handler' = [handler EXCEPT ![h] = hook_ends(@, Returned)]
    /\ UNCHANGED <<registry, session, filt, px, client>>

\* the backend's response handed to every exchange that waits for one
attempt_succeeds_shared(h, raw) ==
    /\ handler[h].pc = "backend"
    /\ handler' = [k \in DOMAIN handler |->
          IF handler[k].pc = "backend"
          THEN after_backend_response([handler[k] EXCEPT !.attempts = Append(@, "ok")],
                                      raw, registry)
          ELSE handler[k]]
    /\ UNCHANGED <<registry, session, filt, px, client>>

\* an attempt of session.request succeeds with the backend's response raw
AttemptSucceeds(h, raw) ==
    /\ handler[h].pc = "backend"
    /\ handler' = [handler EXCEPT ![h] =
          after_backend_response([@ EXCEPT !.attempts = Append(@, "ok")],
                                 raw, registry)]
    /\ UNCHANGED <<registry, session, filt, px, client>>

\* an attempt of session.request raises exc
AttemptFails(h, exc) ==
    /\ handler[h].pc = "backend"
    /\ handler' = [handler EXCEPT ![h] = attempt_failed(@, exc)]
    /\ UNCHANGED <<registry, session, filt, px, client>>

\* the backoff sleep ends
BackoffDone(h) ==
    /\ handler[h].pc = "backoff"
    /\ handler' = [handler EXCEPT ![h] = next_attempt(@)]
    /\ UNCHANGED <<registry, session, filt, px, client>>

\* a cancellation that asyncio.sleep swallows: the loop goes on to its next attempt
cancel_sleep_swallowed(e) ==
    LET d == [e EXCEPT !.cancelled_at = e.pc]
    IN  IF InHook(e) THEN hook_ends(d, Cancelled)
        ELSE IF e.pc = "backoff" THEN next_attempt(d)
        ELSE Raise(d, CancelledError)

\* the exchange's task is cancelled (the client dropped the connection):
\* CancelledError is thrown into the await the task is suspended in. In a hook
\* it reaches Client._run_event; in the backend call or its backoff sleep it
\* leaves HTTPClient.request and _handle_request
cancel(e) ==
    LET d == [e EXCEPT !.cancelled_at = e.pc]
    IN  IF InHook(e) THEN hook_ends(d, Cancelled) ELSE Raise(d, CancelledError)

Cancel(h) ==
    /\ handler[h].pc \in {"request_hook", "forward_hook", "backend", "backoff"}
    /\ handler' = [handler EXCEPT ![h] = cancel(@)]
    /\ UNCHANGED <<registry, session, filt, px, client>>

Next ==
    \/ \E ev \in Events, id \in HandlerIds : Register(ev, id)
    \/ \E h \in Connections, req \in Requests : HandleRequest(h, req)
    \/ \E h \in Connections, call \in HookCalls : HookCall(h, call)
    \/ \E h \in Connections : HookReturns(h)
    \/ \E h \in Connections, raw \in BackendResponses : AttemptSucceeds(h, raw)
    \/ \E h \in Connections, exc \in TransportErrors : AttemptFails(h, exc)
    \/ \E h \in Connections : BackoffDone(h)
    \/ \E h \in Connections : Cancel(h)

Spec == Init /\ [][Next]_vars

\* ------------------------------------------------- the header filter alone
\* a header list and a host-exclusion flag about to be passed to the filter
InitFilter ==
    /\ registry = [ev \in Events |-> None]
    /\ session = "none"
    /\ handler = [h \in Connections |-> Fresh]
    /\ px = NoProxy
    /\ client = NoClient
    /\ \E hs \in FilterInputs, ih \in BOOLEAN :
          filt = [NoFilter EXCEPT !.stage = "input", !.headers = hs,
                                  !.include_host = ih]

\* self._filter_headers(headers, include_host) on the argument, and the Proxy
\* method for the same direction: _prepare_headers for an outbound request
\* (host excluded), _prepare_response_headers for a backend response
FilterHeaders ==
    /\ filt.stage = "input"
    /\ filt' = [filt EXCEPT
                  !.stage = "filtered",
                  !.out = _filter_headers(filt.headers, filt.include_host),
                  !.prepared = IF filt.include_host
                               THEN _prepare_headers(filt.headers)
                               ELSE _prepare_response_headers(filt.headers)]
    /\ UNCHANGED <<registry, session, handler, px, client>>

\* self._filter_headers applied to its own result
FilterAgain ==
    /\ filt.stage = "filtered"
    /\ filt' = [filt EXCEPT
                  !.stage = "refiltered",
                  !.again = _filter_headers(filt.out, filt.include_host)]
    /\ UNCHANGED <<registry, session, handler, px, client>>

NextFilter == FilterHeaders \/ FilterAgain

SpecFilter == InitFilter /\ [][NextFilter]_vars

\* ------------------------------------------- two exchanges of one client
\* two connections, each with its own RequestHandler (server.py __call__)
Exchanges == {1, 2}

\* the request each connection carries
PairRequest(h) ==
    IF h = 1
    THEN [method |-> "GET", path_qs |-> "/status?x=1",
          headers |-> <<<<"Host", "a">>, <<"Connection", "b">>, <<"X-Id", "a">>>>]
    ELSE [method |-> "POST", path_qs |-> "/", headers |-> <<>>]

\* the backend's answer to the request the exchange sent: it names the path
PairBackendResponse(h) ==
    [status |-> 200, reason |-> "OK", headers |-> <<<<"X-Id", "b">>>>,
     body |-> handler[h].sent.path_qs]

\* what an attempt raises: a connection reset and another OSError
PairTransportErrors == {OSError(54), OSError(104)}

InitPair ==
    /\ registry = [ev \in Events |-> None]
    /\ session = "none"
    /\ handler = [h \in Exchanges |-> Fresh]
    /\ filt = NoFilter
    /\ px = NoProxy
    /\ client = NoClient

NextPair ==
    \/ \E ev \in Events, id \in HandlerIds : Register(ev, id)
    \/ \E h \in Exchanges : HandleRequest(h, PairRequest(h))
    \/ \E h \in Exchanges, call \in HookCalls : HookCall(h, call)
    \/ \E h \in Exchanges : HookReturns(h)
    \/ \E h \in Exchanges : AttemptSucceeds(h, PairBackendResponse(h))
    \/ \E h \in Exchanges, exc \in PairTransportErrors : AttemptFails(h, exc)
    \/ \E h \in Exchanges : BackoffDone(h)

SpecPair == InitPair /\ [][NextPair]_vars

\* ------------------------------------------------- the client's lifecycle
\* await self.setup_runner() in start()
SetupRunner ==
    /\ client.start = "idle"
    /\ client' = setup_runner(client)
    /\ UNCHANGED <<registry, session, handler, filt, px>>

\* serve(): the site is created and started
ServeSiteStarts ==
    /\ client.start = "runner_setup"
    /\ client' = serve_site_start(client)
    /\ UNCHANGED <<registry, session, handler, filt, px>>

\* serve(): the dispatch of ready has returned and _ready is set
ServeReady ==
    /\ client.start = "site_started"
    /\ client' = serve_ready(client)
    /\ UNCHANGED <<registry, session, handler, filt, px>>

\* a caller enters close()
Close(who) ==
    /\ who # "aexit"
    /\ client.callers[who].st = "idle"
    /\ client' = close(client, who)
    /\ UNCHANGED <<registry, session, handler, filt, px>>

\* the context manager is left
AExit ==
    /\ client.callers["aexit"].st = "idle"
    /\ client' = aexit(client, "aexit")
    /\ UNCHANGED <<registry, session, handler, filt, px>>

\* the task k running _close() goes on to its next await
CloseTaskStep(k) ==
    /\ k \in 1..Len(client.tasks)
    /\ client.tasks[k].pc # "done"
    /\ IF client.tasks[k].pc = "http_close"
       THEN /\ session' = http_close(session)
            /\ client' = [close_step(client, k) EXCEPT
                              !.pool = pool_closed(@, session)]
       ELSE /\ client' = close_step(client, k)
            /\ session' = session
    /\ UNCHANGED <<registry, handler, filt, px>>

\* the task a caller awaits is done: close() returns to it
CloseReturns(who) ==
    /\ client.callers[who].st = "awaiting"
    /\ client.tasks[client.callers[who].task].pc = "done"
    /\ client' = [client EXCEPT !.callers[who].st = "returned"]
    /\ UNCHANGED <<registry, session, handler, filt, px>>

\* Client.clear()
Clear ==
    /\ client.clears < MaxClears
    /\ client' = clear(client)
    /\ session' = http_clear(session)
    /\ UNCHANGED <<registry, handler, filt, px>>

\* HTTPClient.request: session = self._get_session(), before the first attempt
RequestStarts(r) ==
    /\ client.requests[r].st = "idle"
    /\ LET got == _get_session(session)
       IN  /\ session' = got
           /\ client' = [client EXCEPT
                 !.requests[r] = [st |-> "using", got |-> got],
                 !.pool = IF got # session
                          THEN Append(@, [state |-> "open", after |-> client.closes])
                          ELSE @]
    /\ UNCHANGED <<registry, handler, filt, px>>

\* HTTPClient.request returns or raises
RequestEnds(r) ==
    /\ client.requests[r].st = "using"
    /\ client' = [client EXCEPT !.requests[r].st = "done"]
    /\ UNCHANGED <<registry, session, handler, filt, px>>

NextClient ==
    \/ SetupRunner
    \/ ServeSiteStarts
    \/ ServeReady
    \/ \E who \in Closers : Close(who)
    \/ AExit
    \/ \E k \in 1..(MaxClears + 1) : CloseTaskStep(k)
    \/ \E who \in Closers : CloseReturns(who)
    \/ Clear

SpecClient == Init /\ [][NextClient]_vars

\* backend requests while the client is closed and cleared
NextSession ==
    \/ \E r \in BackendRequests : RequestStarts(r)
    \/ \E r \in BackendRequests : RequestEnds(r)
    \/ Close("close1")
    \/ AExit
    \/ \E k \in 1..(MaxClears + 1) : CloseTaskStep(k)
    \/ \E who \in Closers : CloseReturns(who)
    \/ Clear

SpecSession == Init /\ [][NextSession]_vars

\* ------------------------------------- an exchange during server shutdown
\* backend responses with at most one header
ShortBackendResponses == {r \in BackendResponses : Len(r.headers) <= 1}

\* the server shuts down while the exchange is in progress: a future is
\* stored in _handler_waiter for _handle_request to resolve
HandlerWaiterSet(h) ==
    /\ handler[h].in_progress
    /\ handler[h].waiter = "none"
    /\ handler' = [handler EXCEPT ![h].waiter = "pending"]
    /\ UNCHANGED <<registry, session, filt, px, client>>

NextShutdown ==
    \/ \E ev \in Events, id \in HandlerIds : Register(ev, id)
    \/ \E h \in Connections, req \in Requests : HandleRequest(h, req)
    \/ \E h \in Connections, call \in HookCalls : HookCall(h, call)
    \/ \E h \in Connections : HookReturns(h)
    \/ \E h \in Connections, raw \in ShortBackendResponses : AttemptSucceeds(h, raw)
    \/ \E h \in Connections, exc \in TransportErrors : AttemptFails(h, exc)
    \/ \E h \in Connections : BackoffDone(h)
    \/ \E h \in Connections : Cancel(h)
    \/ \E h \in Connections : HandlerWaiterSet(h)

SpecShutdown == Init /\ [][NextShutdown]_vars

\* ------------------------------------------------- Proxy.forward on its own
Implementations == {"Proxy", "WebSocketHandler"}

\* a request handed to Proxy.forward, or to WebSocketHandler's upgrade test
InitProxy ==
    /\ registry = [ev \in Events |-> None]
    /\ session = "none"
    /\ handler = [h \in Connections |-> Fresh]
    /\ filt = NoFilter
    /\ \E i \in Implementations, r \in ProxyRequests :
          px = [NoProxy EXCEPT !.impl = i, !.request = r, !.pc = "received"]
    /\ client = NoClient

\* Proxy.forward up to its first await on the backend
ProxyForward ==
    /\ px.pc = "received" /\ px.impl = "Proxy"
    /\ px' = IF forward_path(px.request) = "ws"
             THEN [px EXCEPT !.is_ws = is_websocket(px.request),
                             !.path = "ws", !.pc = "ws_connect"]
             ELSE [px EXCEPT !.is_ws = is_websocket(px.request),
                             !.path = "http", !.pc = "http",
                             !.http_sent = Append(@, proxy_http_request(px.request))]
    /\ UNCHANGED <<registry, session, handler, filt, client>>

\* WebSocketHandler.is_websocket_request(request)
IsWebSocketRequest ==
    /\ px.pc = "received" /\ px.impl = "WebSocketHandler"
    /\ px' = [px EXCEPT !.is_ws = is_websocket_request(px.request),
                        !.pc = "checked"]
    /\ UNCHANGED <<registry, session, handler, filt, client>>

\* Proxy.forward: the backend answers; the response is prepared, written and
\* returned
HttpResponds(raw) ==
    /\ px.pc = "http"
    /\ px' = [px EXCEPT !.response = proxy_response(raw), !.pc = "returned"]
    /\ UNCHANGED <<registry, session, handler, filt, client>>

\* Proxy.forward: except Exception: raise web.HTTPBadGateway
HttpFails ==
    /\ px.pc = "http"
    /\ px' = [px EXCEPT !.raised = "HTTPBadGateway", !.pc = "raised"]
    /\ UNCHANGED <<registry, session, handler, filt, client>>

NextProxy ==
    \/ ProxyForward
    \/ IsWebSocketRequest
    \/ \E raw \in ProxyBackendResponses : HttpResponds(raw)
    \/ HttpFails

SpecProxy == InitProxy /\ [][NextProxy]_vars

\* ------------------------------------------------ the WebSocket relay alone
\* the upgrade requests the relay is entered with
RelayRequests ==
    {[method |-> "GET", path_qs |-> p,
      headers |-> UpgradeHeaders(websocket, upgrade),
      body_exists |-> FALSE, body |-> ""] : p \in PathQueries}

\* WebSocketHandler.forward(request) or Proxy.forward_ws(request) is entered
InitRelay ==
    /\ registry = [ev \in Events |-> None]
    /\ session = "none"
    /\ handler = [h \in Connections |-> Fresh]
    /\ filt = NoFilter
    /\ \E i \in Implementations, t \in TargetBases, req \in RelayRequests :
          px = [NoProxy EXCEPT !.impl = i, !.target = t, !.request = req,
                               !.is_ws = TRUE, !.pc = "ws_connect",
                               !.path = IF i = "Proxy" THEN "ws" ELSE "none"]
    /\ client = NoClient

WsConnectFails ==
    /\ px.pc = "ws_connect"
    /\ px' = ws_connect_failed(px)
    /\ UNCHANGED <<registry, session, handler, filt, client>>

WsConnected ==
    /\ px.pc = "ws_connect"
    /\ px' = ws_connected(px)
    /\ UNCHANGED <<registry, session, handler, filt, client>>

\* the pump reading s is about to get the next message of its iteration
Reading(s) == px.pc = "relaying" /\ px.pump[s] = "running" /\ ~px.closed[s]

\* async for msg in <socket>: a text, binary, ping or pong message
PumpMessage(s, msg) ==
    /\ Reading(s)
    /\ Len(px.received[s]) < MaxFrames
    /\ px' = pump_body(px, s, msg)
    /\ UNCHANGED <<registry, session, handler, filt, client>>

\* async for msg in <socket>: the socket failed and is closed by the library,
\* the iteration yields an ERROR message
PumpError(s) ==
    /\ Reading(s)
    /\ px' = pump_body([px EXCEPT !.closed[s] = TRUE, !.got_error[s] = TRUE],
                       s, ErrorFrame)
    /\ UNCHANGED <<registry, session, handler, filt, client>>

\* the remote end of s sends CLOSE and the library closes s. Either the
\* iteration hands the CLOSE message to the loop body, or it ends there, as
\* an iteration over a closed socket does, and the body does not run.
PumpCloseFrame(s, delivered) ==
    /\ Reading(s)
    /\ LET x == [px EXCEPT !.closed[s] = TRUE, !.got_close[s] = TRUE]
       IN  px' = IF delivered THEN pump_body(x, s, CloseFrame)
                 ELSE [x EXCEPT !.pump[s] = "ended"]
    /\ UNCHANGED <<registry, session, handler, filt, client>>

\* async for msg in <socket>: the socket has been closed, the iteration ends
IterEnds(s) ==
    /\ px.pc = "relaying" /\ px.pump[s] = "running" /\ px.closed[s]
    /\ px' = [px EXCEPT !.pump[s] = "ended"]
    /\ UNCHANGED <<registry, session, handler, filt, client>>

\* the iteration over s raises
PumpReadRaises(s) ==
    /\ Reading(s)
    /\ px' = pump_exception(px, s, "read_exception")
    /\ UNCHANGED <<registry, session, handler, filt, client>>

\* send_str / send_bytes to the peer of s raises for a message read from s
PumpWriteRaises(s, msg) ==
    /\ Reading(s)
    /\ Len(px.received[s]) < MaxFrames
    /\ px' = pump_exception([px EXCEPT !.received[s] = Append(@, msg)],
                            s, "write_exception")
    /\ UNCHANGED <<registry, session, handler, filt, client>>

\* await asyncio.gather(...) has its result and the method is left
GatherDone ==
    /\ px.pc = "relaying"
    /\ gather_ready(px)
    /\ px' = gather_done(px)
    /\ UNCHANGED <<registry, session, handler, filt, client>>

NextRelay ==
    \/ WsConnectFails
    \/ WsConnected
    \/ \E s \in Sides, msg \in DataFrames \cup OtherFrames : PumpMessage(s, msg)
    \/ \E s \in Sides : PumpError(s)
    \/ \E s \in Sides, delivered \in BOOLEAN : PumpCloseFrame(s, delivered)
    \/ \E s \in Sides : IterEnds(s)
    \/ \E s \in Sides : PumpReadRaises(s)
    \/ \E s \in Sides, msg \in DataFrames : PumpWriteRaises(s, msg)
    \/ GatherDone

SpecRelay == InitRelay /\ [][NextRelay]_vars

\* ------------------------------------------------------------------- claims
Last(s) == s[Len(s)]

Has(s, x) == \E i \in 1..Len(s) : s[i] = x

RECURSIVE Sum(_)
Sum(s) == IF s = <<>> THEN 0 ELSE Head(s) + Sum(Tail(s))

\* the signals the hook of event ev constructed in the exchange e
Emitted(e, ev) == SelectSeq(e.emitted, LAMBDA p : p[1] = ev)

\* the request hook of e called respond(r)
RequestHookResponded(e, r) ==
    /\ Emitted(e, "request") # <<>>
    /\ Emitted(e, "request")[1][2] = respond(r)

\* C1: when the request hook calls respond(R), the exchange is finalized with
\* exactly R (finish_response is called with R and nothing else) and neither
\* proxy.forward nor the backend client is invoked.
C1_RespondNowFinalizesWithR ==
    \A h \in Connections : \A r \in HookResponses :
        RequestHookResponded(handler[h], r) =>
            /\ handler[h].pc = "done"
            /\ handler[h].finished = <<r>>
            /\ handler[h].raised = NoExc
            /\ ~Has(handler[h].events, "proxy_forward")
            /\ handler[h].attempts = <<>>
            /\ handler[h].sent = NoSent

C1_Witness ==
    \E h \in Connections :
        /\ RequestHookResponded(handler[h],
              [status |-> 403, reason |-> "Forbidden", headers |-> <<>>,
               body |-> "blocked"])
        /\ Len(handler[h].finished) = 1
        /\ handler[h].finished[1].status = 403

\* the exchange e was forwarded by its request hook and the backend answered
ForwardedAndAnswered(e) ==
    /\ e.req_signal = "ForwardTo"
    /\ e.attempts # <<>>
    /\ Last(e.attempts) = "ok"

\* the forward hook of e is not registered, or returned without a call of respond
ForwardHookSilent(e) ==
    /\ Has(e.events, "forward_done")
    /\ e.fwd_signal = "NoSignal"
    /\ e.errors = 0

\* the backend's response with the hop-by-hop headers removed and every other
\* header as the backend sent it
Stripped(raw) ==
    [status |-> raw.status, reason |-> raw.reason,
     headers |-> SelectPairs(raw.headers, HOP_BY_HOP_HEADERS), body |-> raw.body]

\* C2: when the request is forwarded, the backend succeeds and the forward hook
\* is absent or returns without respond, finish_response receives the backend's
\* response with the hop-by-hop headers removed and every other header unchanged.
C2_PassThroughKeepsOtherHeaders ==
    \A h \in Connections :
        (ForwardedAndAnswered(handler[h]) /\ ForwardHookSilent(handler[h])) =>
            handler[h].finished = <<Stripped(handler[h].backend)>>

\* C3: when the request was forwarded, the backend succeeded and the forward
\* hook calls respond(R2), finish_response is called once, with R2, and the
\* backend's response is not finalized.
C3_ForwardHookOverrides ==
    \A h \in Connections : \A r \in HookResponses :
        ( /\ Emitted(handler[h], "forward") # <<>>
          /\ Emitted(handler[h], "forward")[1][2] = respond(r) ) =>
            /\ ForwardedAndAnswered(handler[h])
            /\ handler[h].pc = "done"
            /\ handler[h].finished = <<r>>
            /\ handler[h].raised = NoExc

C3_Witness ==
    \E h \in Connections :
        /\ Emitted(handler[h], "forward") # <<>>
        /\ Emitted(handler[h], "forward")[1][2].kind = "RequestAborted"
        /\ handler[h].backend.status = 200
        /\ Len(handler[h].finished) = 1
        /\ handler[h].finished[1].status = 429

\* the request dispatch of e is over and its hook raised neither RequestAborted
\* nor RequestForward (or none is registered)
RequestDispatchSilent(e) ==
    /\ Has(e.events, "request_done")
    /\ Emitted(e, "request") = <<>>

\* C4: when the request hook returns without raising RequestAborted or
\* RequestForward, or none is registered, _handle_request ends by raising
\* RequestNotHandled: it is not left waiting and the backend is never called.
C4_SilentHookRaisesNotHandled ==
    \A h \in Connections :
        RequestDispatchSilent(handler[h]) =>
            /\ handler[h].pc = "done"
            /\ handler[h].raised = RequestNotHandled
            /\ ~handler[h].in_progress
            /\ ~Has(handler[h].events, "proxy_forward")
            /\ handler[h].attempts = <<>>

C4_Witness ==
    \E h \in Connections :
        /\ RequestDispatchSilent(handler[h])
        /\ handler[h].invoked = <<<<"request", "h1">>>>
        /\ handler[h].raised = RequestNotHandled

C4_WitnessNoHook ==
    \E h \in Connections :
        /\ RequestDispatchSilent(handler[h])
        /\ handler[h].invoked = <<>>
        /\ handler[h].raised = RequestNotHandled

\* the number of entries of s equal to x
Count(s, x) == Cardinality({i \in 1..Len(s) : s[i] = x})

\* C5: when the request hook gives neither RespondNow nor ForwardTo, the exchange
\* is still finalized: finish_response is called with a generic failure
\* response, and the exchange is not dispatched again.
C5_UnhandledIsFinalized ==
    \A h \in Connections :
        (handler[h].pc = "done" /\ handler[h].req_signal = "Unhandled") =>
            /\ Len(handler[h].finished) = 1
            /\ handler[h].finished[1].status >= 500
            /\ Count(handler[h].events, "request_dispatch") = 1

\* C6: when the request hook signals ForwardTo and the forwarder or the backend
\* client raises, finish_response is called with a failure response and the
\* backend's exception does not leave _handle_request.
C6_BackendFailureIsFinalized ==
    \A h \in Connections :
        ( /\ handler[h].pc = "done"
          /\ handler[h].req_signal = "ForwardTo"
          /\ handler[h].attempts # <<>>
          /\ Last(handler[h].attempts) # "ok" ) =>
            /\ handler[h].raised = NoExc
            /\ Len(handler[h].finished) = 1
            /\ handler[h].finished[1].status >= 500

\* the steps of one exchange in the order the protocol takes them
StepOrder ==
    <<"request_dispatch", "request_done", "proxy_forward", "proxy_done",
      "forward_dispatch", "forward_done", "finish_response">>

Pos(tag) == CHOOSE i \in 1..Len(StepOrder) : StepOrder[i] = tag

\* in the log s every tag comes later in StepOrder than the tags before it
InStepOrder(s) == \A i, j \in 1..Len(s) : i < j => Pos(s[i]) < Pos(s[j])

\* in the log s the step tag has run only after the step before has
Preceded(s, before, tag) == Has(s, tag) => Has(s, before)

\* C7: within one exchange the request dispatch completes before any backend
\* call starts, the backend call completes before the forward dispatch starts,
\* and the forward dispatch completes before finish_response is called; no step
\* is repeated, reordered or overlapped.
C7_StepsInOrder ==
    \A h \in Connections :
        LET ev == handler[h].events
        IN  /\ InStepOrder(ev)
            /\ Preceded(ev, "request_dispatch", "request_done")
            /\ Preceded(ev, "request_done", "proxy_forward")
            /\ Preceded(ev, "request_done", "finish_response")
            /\ Preceded(ev, "proxy_forward", "proxy_done")
            /\ Preceded(ev, "proxy_done", "forward_dispatch")
            /\ Preceded(ev, "forward_dispatch", "forward_done")
            /\ (Has(ev, "proxy_forward") /\ Has(ev, "finish_response"))
                   => Has(ev, "forward_done")
            /\ (handler[h].attempts # <<>>) => Has(ev, "proxy_forward")
            /\ (handler[h].pc \in {"backend", "backoff"})
                   <=> (Has(ev, "proxy_forward") /\ ~Has(ev, "proxy_done")
                        /\ handler[h].raised = NoExc)
            /\ (handler[h].pc = "forward_hook")
                   <=> (Has(ev, "forward_dispatch") /\ ~Has(ev, "forward_done"))

C7_Witness ==
    \E h \in Connections :
        /\ handler[h].events = StepOrder
        /\ Len(handler[h].invoked) = 2

\* C8: a request dispatch yields exactly one of RespondNow, ForwardTo and
\* Unhandled: respond() and forward() raise, so a hook constructs at most one
\* signal and a respond is never followed by a forward; the forward dispatch
\* yields at most one RespondNow.
C8_ExactlyOneOutcome ==
    \A h \in Connections :
        LET e == handler[h]
            responded == e.finished # <<>> /\ ~Has(e.events, "proxy_forward")
            forwarded == Has(e.events, "proxy_forward")
            unhandled == e.raised = RequestNotHandled
        IN  /\ Len(Emitted(e, "request")) <= 1
            /\ Len(Emitted(e, "forward")) <= 1
            /\ Has(e.events, "request_done") =>
                  /\ Cardinality({b \in {"r", "f", "u"} :
                        \/ b = "r" /\ responded
                        \/ b = "f" /\ forwarded
                        \/ b = "u" /\ unhandled}) = 1
                  /\ responded <=> e.req_signal = "RespondNow"
                  /\ forwarded <=> e.req_signal = "ForwardTo"
                  /\ unhandled <=> e.req_signal = "Unhandled"
                  /\ e.req_signal = "RespondNow" <=>
                        (Emitted(e, "request") # <<>>
                         /\ Emitted(e, "request")[1][2].kind = "RequestAborted")
                  /\ e.req_signal = "ForwardTo" <=>
                        (Emitted(e, "request") # <<>>
                         /\ Emitted(e, "request")[1][2].kind = "RequestForward")
            /\ ~Has(e.events, "request_done") =>
                  (e.req_signal = "none" /\ Emitted(e, "request") = <<>>)
            /\ Len(e.finished) <= 1

C8_Witness ==
    \E h \in Connections :
        /\ handler[h].req_signal = "ForwardTo"
        /\ handler[h].fwd_signal = "RespondNow"
        /\ Len(Emitted(handler[h], "request")) = 1
        /\ Len(Emitted(handler[h], "forward")) = 1
        /\ Len(handler[h].finished) = 1

\* C9: on every path of an exchange (respond-now, pass-through, override,
\* unhandled, backend failure) finish_response is called exactly once.
C9_FinalizedExactlyOnce ==
    \A h \in Connections :
        handler[h].pc = "done" => Len(handler[h].finished) = 1

\* the seconds slept before attempts 2..n+1 when each backoff follows the rule
\* 1 + (n-2)*2 for the sleep before attempt n
BackoffSchedule(n) == [i \in 1..n |-> 1 + ((i + 1) - 2) * 2]

\* cumulative sleep after k failed attempts
CumulativeSleep == <<0, 1, 4, 9, 16>>

\* the attempt log of k connection resets followed by a success
ResetsThenOk(k) == [i \in 1..(k + 1) |-> IF i <= k THEN "reset" ELSE "ok"]

IsConnectionReset(exc) == exc.type = "OSError" /\ exc.errno \in {54, 10054}

\* the attempt log of n connection resets
Resets(n) == [i \in 1..n |-> "reset"]

C12_RetryOnlyConnectionResets ==
    [][\A h \in Connections : \A exc \in TransportErrors :
          AttemptFails(h, exc) =>
              IF IsConnectionReset(exc)
              THEN Len(handler[h].attempts) < 4 =>
                      /\ handler'[h].pc = "backoff"
                      /\ handler'[h].raised = NoExc
                      /\ Len(handler'[h].slept) = Len(handler[h].slept) + 1
                      /\ Len(handler'[h].attempts) = Len(handler[h].attempts) + 1
              ELSE /\ handler'[h].pc = "done"
                   /\ handler'[h].raised = exc
                   /\ handler'[h].slept = handler[h].slept
                   /\ Len(handler'[h].attempts) = Len(handler[h].attempts) + 1
                   /\ handler'[h].finished = <<>>]_vars

C12_Witness ==
    \E h \in Connections :
        /\ handler[h].attempts = <<"reset", "OSError">>
        /\ handler[h].raised = OSError(104)
        /\ handler[h].slept = <<1>>
        /\ handler[h].pc = "done"

\* the lower-cased names of a header list
LowerNames(hs) == {lower(hs[i][1]) : i \in 1..Len(hs)}

\* the names of a header list, as written
Names(hs) == {hs[i][1] : i \in 1..Len(hs)}

\* C13: whatever the casing of the names, the output of _filter_headers (and
\* of Proxy._prepare_headers / _prepare_response_headers) has no header whose
\* lower-cased name is hop-by-hop; it has no host header when host exclusion
\* is requested, and keeps every host header name when it is not.
C13_FilterRemovesHopByHop ==
    filt.stage \in {"filtered", "refiltered"} =>
        /\ LowerNames(filt.out) \cap HOP_BY_HOP_HEADERS = {}
        /\ LowerNames(filt.prepared) \cap HOP_BY_HOP_HEADERS = {}
        /\ filt.include_host =>
              "host" \notin LowerNames(filt.out) \cup LowerNames(filt.prepared)
        /\ ~filt.include_host =>
              \A n \in Names(filt.headers) :
                  lower(n) = "host" =>
                      n \in Names(filt.out) /\ n \in Names(filt.prepared)

C13_Witness ==
    /\ filt.stage = "filtered"
    /\ filt.headers = <<<<"CONNECTION", "a">>, <<"Host", "b">>>>
    /\ ~filt.include_host
    /\ filt.out = <<<<"Host", "b">>>>

C13_WitnessHostExcluded ==
    /\ filt.stage = "filtered"
    /\ filt.headers = <<<<"Transfer-Encoding", "a">>, <<"HOST", "b">>>>
    /\ filt.include_host
    /\ filt.out = <<>>

\* the names the filter removes under the flag
Excluded(include_host) ==
    IF include_host THEN HOP_BY_HOP_HEADERS \cup {"host"} ELSE HOP_BY_HOP_HEADERS

\* C14: every entry of the input multimap whose name is not a hop-by-hop name
\* is in the output of _filter_headers with its value, as many times as in
\* the input and in the same relative order: the output is the input with the
\* removed entries deleted.
C14_FilterPreservesOthers ==
    filt.stage \in {"filtered", "refiltered"} =>
        filt.out = SelectPairs(filt.headers, Excluded(filt.include_host))

\* C15: filtering a filtered header list changes nothing, under either value
\* of the host-exclusion flag.
C15_FilterIdempotent ==
    filt.stage = "refiltered" => filt.again = filt.out

C15_Witness ==
    /\ filt.stage = "refiltered"
    /\ filt.headers = <<<<"Connection", "a">>, <<"X-Id", "b">>>>
    /\ filt.again = <<<<"X-Id", "b">>>>

\* the event whose hook the exchange is running, and the argument it was given
HookEvent(e) == IF e.pc = "request_hook" THEN "request" ELSE "forward"
HookArg(e) == IF e.pc = "request_hook" THEN e.request ELSE e.forward

\* C16: when a running hook raises an exception that is neither RequestAborted
\* nor RequestForward nor a cancellation, on_error is called exactly once, with
\* the name dispatch formed for the event ('on_' + event), the error and the
\* argument the hook was given; dispatch returns normally, so that
\* _handle_request goes on as after a hook that returned (a request left
\* unhandled, a forward response finalized) and the hook's exception leaves
\* neither dispatch nor _handle_request.
C16_HookErrorContained ==
    [][\A h \in Connections : \A call \in HookCalls :
          (call.op = "raise" /\ HookCall(h, call)) =>
              LET e == handler[h]
                  n == handler'[h]
              IN  /\ n.errors = e.errors + 1
                  /\ n.on_error_log =
                        Append(e.on_error_log,
                               [event_method |-> "on_" \o HookEvent(e),
                                error |-> HookError, arg |-> HookArg(e)])
                  /\ n.outcomes = Append(e.outcomes, <<HookEvent(e), Returned>>)
                  /\ n.raised.type \in {"none", "RequestNotHandled"}
                  /\ HookEvent(e) = "request" =>
                        n.req_signal = "Unhandled" /\ n.raised = RequestNotHandled
                  /\ HookEvent(e) = "forward" =>
                        n.finished = <<e.forward>> /\ n.raised = NoExc]_vars

C16_Witness ==
    \E h \in Connections :
        LET e == handler[h]
        IN  /\ e.forward # NoResponse
            /\ e.on_error_log =
                  <<[event_method |-> "on_forward", error |-> HookError,
                     arg |-> e.forward]>>
            /\ e.outcomes = <<<<"request", forward("http://backend")>>,
                              <<"forward", Returned>>>>
            /\ e.finished = <<e.forward>>

\* C17: a RequestAborted or RequestForward raised by a hook reaches the caller
\* of dispatch as the hook raised it, with its response or url, and on_error
\* is not called for it: _handle_request finalizes the signal's response,
\* forwards to the signal's url, or is left by the forward hook's RequestForward.
C17_ControlSignalsPropagate ==
    [][\A h \in Connections : \A call \in HookCalls :
          (call.op \in {"respond", "forward"} /\ HookCall(h, call)) =>
              LET e == handler[h]
                  n == handler'[h]
                  raised == IF call.op = "respond"
                            THEN [kind |-> "RequestAborted",
                                  response |-> call.response, url |-> ""]
                            ELSE [kind |-> "RequestForward",
                                  response |-> NoResponse, url |-> call.url]
              IN  /\ n.outcomes = Append(e.outcomes, <<HookEvent(e), raised>>)
                  /\ n.errors = e.errors
                  /\ n.on_error_log = e.on_error_log
                  /\ call.op = "respond" =>
                        n.finished = <<call.response>> /\ n.pc = "done"
                  /\ (call.op = "forward" /\ HookEvent(e) = "request") =>
                        n.pc = "backend" /\ n.sent.base = call.url
                  /\ (call.op = "forward" /\ HookEvent(e) = "forward") =>
                        n.raised = RequestForwardExc /\ n.finished = <<>>]_vars

C17_Witness ==
    \E h \in Connections : \E r \in HookResponses :
        LET e == handler[h]
        IN  /\ e.outcomes = <<<<"request", forward("http://backend")>>,
                              <<"forward", respond(r)>>>>
            /\ e.errors = 0
            /\ e.finished = <<r>>

\* C18: dispatch of an event for which no handler is registered runs no
\* handler, calls no on_error and raises nothing: _handle_request goes on at
\* once, for the request event to its raise of RequestNotHandled, for the
\* forward event to finish_response with the backend response.
C18_NoHandlerDispatchReturns ==
    [][\A h \in Connections :
          /\ \A req \in Requests :
                (registry["request"] = None /\ HandleRequest(h, req)) =>
                    LET n == handler'[h]
                    IN  /\ n.events = <<"request_dispatch", "request_done">>
                        /\ n.invoked = <<>>
                        /\ n.errors = 0 /\ n.on_error_log = <<>>
                        /\ n.req_signal = "Unhandled"
                        /\ n.raised = RequestNotHandled
          /\ \A raw \in BackendResponses :
                (registry["forward"] = None /\ AttemptSucceeds(h, raw)) =>
                    LET e == handler[h]
                        n == handler'[h]
                    IN  /\ n.invoked = e.invoked
                        /\ n.errors = e.errors /\ n.on_error_log = e.on_error_log
                        /\ n.outcomes = e.outcomes
                        /\ n.raised = NoExc
                        /\ n.pc = "done"
                        /\ n.forward.status = raw.status
                        /\ n.finished = <<n.forward>>]_vars

C18_Witness ==
    \E h \in Connections :
        LET e == handler[h]
        IN  /\ Has(e.events, "forward_dispatch")
            /\ \A i \in 1..Len(e.invoked) : e.invoked[i][1] # "forward"
            /\ e.forward.status = 200
            /\ e.finished = <<e.forward>>
            /\ e.errors = 0

\* C19: an exchange cancelled while one of its hooks is in flight, at any
\* point of the hook and for either event, has no call of on_error.
C19_CancelledHookNoOnError ==
    \A h \in Connections :
        handler[h].cancelled_at \in {"request_hook", "forward_hook"} =>
            handler[h].errors = 0 /\ handler[h].on_error_log = <<>>

C19_Witness ==
    \E h \in Connections :
        /\ handler[h].cancelled_at = "forward_hook"
        /\ handler[h].outcomes[2] = <<"forward", Returned>>
        /\ handler[h].errors = 0

\* C20: an exchange cancelled while its request hook, its forward hook or its
\* backend call is in flight makes no call of finish_response afterwards.
C20_NoFinishAfterCancel ==
    \A h \in Connections :
        handler[h].cancelled_at # "none" => handler[h].finished = <<>>

\* C21: a cancellation delivered while HTTPClient.request sleeps between two
\* attempts ends the send: no attempt follows the sleep (as many attempts as
\* sleeps), no response is returned or finalized, and CancelledError is what
\* leaves HTTPClient.request and _handle_request.
C21_CancelInBackoffAborts ==
    \A h \in Connections :
        handler[h].cancelled_at = "backoff" =>
            /\ handler[h].pc = "done"
            /\ handler[h].raised = CancelledError
            /\ Len(handler[h].attempts) = Len(handler[h].slept)
            /\ handler[h].tries = Len(handler[h].slept) - 1
            /\ \A i \in 1..Len(handler[h].attempts) : handler[h].attempts[i] = "reset"
            /\ handler[h].forward = NoResponse
            /\ handler[h].finished = <<>>

C21_Witness ==
    \E h \in Connections :
        /\ handler[h].cancelled_at = "backoff"
        /\ handler[h].slept = <<1, 3>>
        /\ handler[h].attempts = <<"reset", "reset">>
        /\ handler[h].raised = CancelledError

RECURSIVE Strip(_)
\* a value without the blanks at its ends
Strip(v) ==
    IF v = <<>> THEN v
    ELSE IF Head(v) = " " THEN Strip(Tail(v))
    ELSE IF v[Len(v)] = " " THEN Strip(SubSeq(v, 1, Len(v) - 1))
    ELSE v

\* whether tok is one of the tokens of the comma-separated list v
HasToken(v, tok) ==
    \E i \in 1..(Len(v) + 1) : \E j \in (i - 1)..Len(v) :
        /\ i = 1 \/ v[i - 1] = ","
        /\ j = Len(v) \/ v[j + 1] = ","
        /\ \A k \in i..j : v[k] # ","
        /\ Strip(SubSeq(v, i, j)) = tok

\* C22: the upgrade test of Proxy and of WebSocketHandler is true exactly when
\* the Upgrade header equals websocket without regard to case and the
\* Connection header, without regard to case, has upgrade among the tokens of
\* its comma-separated list; a missing header counts as empty.
C22_UpgradeTestIsTokenTest ==
    px.pc \notin {"idle", "received"} =>
        (px.is_ws <=>
            /\ str_lower(headers_get(px.request.headers, "Upgrade")) = websocket
            /\ HasToken(str_lower(headers_get(px.request.headers, "Connection")),
                        upgrade))

\* C23: ws_server.prepare is called only after session.ws_connect has opened
\* the outbound connection; when the outbound connection attempt fails, the
\* relay raises and the inbound upgrade is never accepted.
C23_PrepareAfterConnect ==
    /\ px.prepared => px.ws_connects = <<<<ws_target(px), "ok">>>>
    /\ (px.ws_connects # <<>> /\ px.ws_connects[1][2] = "failed") =>
          /\ px.pc = "raised" /\ px.raised # "none"
          /\ ~px.prepared
          /\ \A s \in Sides : px.pump[s] = "none" /\ px.sent[s] = <<>>

C23_Witness ==
    /\ px.ws_connects = <<<<ws_scheme \o <<"b">> \o plain_path_qs, "failed">>>>
    /\ px.pc = "raised"
    /\ ~px.prepared

\* the text and binary messages of a log, in order
DataOf(log) == SelectSeq(log, LAMBDA m : m.type \in {"TEXT", "BINARY"})

\* C24: in each direction the frames written to one socket are the text and
\* binary messages read from the other, each once, with its type and payload
\* and in the order read; only a message whose send raised, which ends the
\* pump, is missing.
C24_RelayFidelity ==
    \A s \in Sides :
        LET data == DataOf(px.received[s])
        IN  px.sent[peer(s)] =
                IF px.pump[s] = "write_exception"
                THEN SubSeq(data, 1, Len(data) - 1)
                ELSE data

C24_Witness ==
    /\ px.received["ws_client"] =
          <<[type |-> "TEXT", data |-> "a"], [type |-> "BINARY", data |-> "b"]>>
    /\ px.sent["ws_server"] = px.received["ws_client"]
    /\ px.received["ws_server"] =
          <<[type |-> "PING", data |-> ""], [type |-> "BINARY", data |-> "b"]>>
    /\ px.sent["ws_client"] = <<[type |-> "BINARY", data |-> "b"]>>

\* C25: a CLOSE frame from either side ends the pump reading that side and
\* closes the other side, so that the other pump ends too and the relay returns.
C25_CloseClosesPeer ==
    \A s \in Sides :
        px.got_close[s] => Terminated(px, s) /\ px.closed[peer(s)]

\* C26: an ERROR message on one side ends the pump reading that side and closes
\* the other side, in both directions.
C26_ErrorClosesPeer ==
    \A s \in Sides :
        px.got_error[s] => Terminated(px, s) /\ px.closed[peer(s)]

\* C27: the relay returns only after both pumps have ended, and once one pump
\* has ended, for whatever reason, the other ends without a further frame from
\* its own source: the socket it reads is closed, which ends its iteration.
C27_PumpsJoin ==
    /\ px.pc = "returned" /\ px.ws_connects # <<>> =>
          \A s \in Sides : Terminated(px, s)
    /\ px.pc = "relaying" =>
          \A s \in Sides :
              (Terminated(px, s) /\ px.pump[peer(s)] = "running") =>
                  px.closed[peer(s)]

\* the pump reading s ended on an exception
PumpFailed(s) == px.pump[s] \in {"read_exception", "write_exception"}

\* the socket the exception of the pump reading s was raised on
Affected(s) == IF px.pump[s] = "read_exception" THEN s ELSE peer(s)

\* C28: an exception raised while a pump reads or writes a frame stays inside
\* the relay: the affected socket is closed, both pumps end, the exception does
\* not leave the relay, the connection is not opened again and no frame is
\* sent again.
C28_TransportErrorRecovered ==
    \A s \in Sides :
        PumpFailed(s) =>
            /\ px.raised = "none"
            /\ px.closed[Affected(s)]
            /\ px.pump[peer(s)] = "running" => px.closed[peer(s)]
            /\ Len(px.ws_connects) = 1
            /\ Len(px.sent[peer(s)]) <= Len(DataOf(px.received[s]))

\* C29: a message that is neither text, binary, close nor error (a ping) makes
\* the pump send nothing, close nothing and stay in its loop, where it relays
\* the frames that follow.
C29_OtherFramesIgnored ==
    [][\A s \in Sides : \A msg \in OtherFrames :
          PumpMessage(s, msg) =>
              /\ px'.sent = px.sent
              /\ px'.closed = px.closed
              /\ px'.close_calls = px.close_calls
              /\ px'.pump = px.pump
              /\ px'.pc = px.pc]_vars

C29_Witness ==
    \E s \in Sides :
        /\ px.received[s] =
              <<[type |-> "PING", data |-> ""], [type |-> "TEXT", data |-> "a"]>>
        /\ px.sent[peer(s)] = <<[type |-> "TEXT", data |-> "a"]>>
        /\ px.pump[s] = "running"

C30_WitnessWebSocket ==
    /\ px.impl = "Proxy"
    /\ px.path = "ws"
    /\ px.http_sent = <<>>

\* the exchange's hook for the event raised an ordinary exception
HookFailed(e, ev) ==
    \E i \in 1..Len(e.on_error_log) : e.on_error_log[i].event_method = "on_" \o ev

\* C34: when the request hook raises an ordinary exception, on_error is called
\* and nothing is finalized by the dispatcher; the exchange ends with
\* RequestNotHandled, without a backend call and without a forward dispatch.
C34_RequestHookErrorUnhandled ==
    \A h \in Connections :
        LET e == handler[h]
        IN  HookFailed(e, "request") =>
                /\ e.errors = 1 /\ Len(e.on_error_log) = 1
                /\ e.on_error_log[1].arg = e.request
                /\ e.pc = "done"
                /\ e.req_signal = "Unhandled"
                /\ e.raised = RequestNotHandled
                /\ e.finished = <<>>
                /\ e.attempts = <<>> /\ e.sent = NoSent
                /\ e.events = <<"request_dispatch", "request_done">>

C34_Witness ==
    \E h \in Connections :
        /\ HookFailed(handler[h], "request")
        /\ handler[h].raised = RequestNotHandled
        /\ handler[h].request.method = "GET"

\* C35: when the forward hook raises an ordinary exception, on_error is called
\* and the exchange is finalized with the backend response as the backend
\* client built it, as after a forward hook that gave no signal.
C35_ForwardHookErrorPassesThrough ==
    \A h \in Connections :
        LET e == handler[h]
        IN  HookFailed(e, "forward") =>
                /\ e.errors = 1 /\ Len(e.on_error_log) = 1
                /\ e.on_error_log[1].arg = e.forward
                /\ e.pc = "done"
                /\ e.fwd_signal = "NoSignal"
                /\ e.raised = NoExc
                /\ e.forward = web_response(e.backend)
                /\ e.finished = <<e.forward>>

C35_Witness ==
    \E h \in Connections :
        /\ HookFailed(handler[h], "forward")
        /\ handler[h].backend.headers = <<<<"X-Id", "a">>, <<"Set-Cookie", "b">>>>
        /\ handler[h].finished = <<handler[h].forward>>

\* the calls of the proxy forwarder the exchange made
Forwards(e) == Count(e.events, "proxy_forward")

\* C36: an exchange calls the proxy forwarder at most once: a forward that
\* failed is not called again by _handle_request, and a RequestForward raised
\* by the forward hook leaves _handle_request without a second forward.
C36_SingleForward ==
    \A h \in Connections :
        LET e == handler[h]
        IN  /\ Forwards(e) <= 1
            /\ (e.raised.type \in {"OSError", "ClientPayloadError"}) =>
                  e.pc = "done" /\ Forwards(e) = 1 /\ e.finished = <<>>
            /\ e.fwd_signal = "ForwardTo" =>
                  /\ Forwards(e) = 1
                  /\ e.pc = "done"
                  /\ e.raised = RequestForwardExc

C36_Witness ==
    \E h \in Connections :
        /\ handler[h].fwd_signal = "ForwardTo"
        /\ Forwards(handler[h]) = 1
        /\ handler[h].pc = "done"

\* C40: however _handle_request is left (a response finalized after respond
\* or forward, RequestNotHandled, a backend failure, a cancellation), the flag
\* _request_in_progress is False afterwards and a _handler_waiter that was set
\* has its result; while a hook runs and during the backend call and its
\* backoff sleeps the flag is True.
C40_FlagAndWaiter ==
    \A h \in Connections :
        LET e == handler[h]
        IN  /\ e.pc = "done" => ~e.in_progress /\ e.waiter \in {"none", "resolved"}
            /\ e.pc \in {"request_hook", "forward_hook", "backend", "backoff"} =>
                  e.in_progress /\ e.waiter \in {"none", "pending"}
            /\ e.pc = "idle" => ~e.in_progress

\* the ways _handle_request was left with a waiter set
WaiterResolvedAfter(what) ==
    \E h \in Connections :
        /\ handler[h].pc = "done"
        /\ handler[h].waiter = "resolved"
        /\ ~handler[h].in_progress
        /\ what[h]

C40_Witness ==
    /\ WaiterResolvedAfter([h \in Connections |->
          handler[h].cancelled_at = "backoff" /\ handler[h].raised = CancelledError])

C40_WitnessOverride ==
    WaiterResolvedAfter([h \in Connections |->
          handler[h].fwd_signal = "RespondNow" /\ Len(handler[h].finished) = 1])

C40_WitnessUnhandled ==
    WaiterResolvedAfter([h \in Connections |-> handler[h].raised = RequestNotHandled])

C40_WitnessBackendFailure ==
    WaiterResolvedAfter([h \in Connections |-> handler[h].raised = OSError(104)])

\* the hooks of event ev run in the exchange e
Invoked(e, ev) == SelectSeq(e.invoked, LAMBDA p : p[1] = ev)

\* C31: a dispatch of an event runs the handler registered last under its
\* name, once, and no other (none when none is registered), and leaves the
\* registry as it is; hooks run only in a dispatch; a registration replaces the
\* entry of its event and nothing else.
C31_RegistryOverwrite ==
    [][ /\ \A h \in Exchanges : \A ev \in Events :
              LET tag == ev \o "_dispatch"
                  dispatched == Count(handler'[h].events, tag) >
                                Count(handler[h].events, tag)
              IN  /\ dispatched =>
                        /\ registry' = registry
                        /\ Invoked(handler'[h], ev) =
                              IF registry[ev] = None THEN Invoked(handler[h], ev)
                              ELSE Append(Invoked(handler[h], ev), <<ev, registry[ev]>>)
                  /\ ~dispatched => Invoked(handler'[h], ev) = Invoked(handler[h], ev)
        /\ registry' # registry =>
              /\ handler' = handler
              /\ \E ev \in Events : \E id \in HandlerIds :
                    registry' = [registry EXCEPT ![ev] = id]
      ]_vars

\* h1 ran for the first exchange, h2 was registered over it, and the second
\* exchange's dispatch ran h2 alone
C31_Witness ==
    /\ registry["request"] = "h2"
    /\ handler[1].pc = "done"
    /\ handler[1].invoked = <<<<"request", "h1">>>>
    /\ handler[2].pc = "request_hook"
    /\ handler[2].invoked = <<<<"request", "h2">>>>

\* the response the exchange's own signals and own backend response determine
OwnResponse(h) ==
    LET e == handler[h]
        req == Emitted(e, "request")
        fwd == Emitted(e, "forward")
    IN  IF fwd # <<>> /\ fwd[1][2].kind = "RequestAborted" THEN fwd[1][2].response
        ELSE IF req # <<>> /\ req[1][2].kind = "RequestAborted" THEN req[1][2].response
        ELSE web_response([status |-> 200, reason |-> "OK",
                           headers |-> <<<<"X-Id", "b">>>>,
                           body |-> PairRequest(h).path_qs])

\* the exchange is suspended in a hook, in the backend call or in a backoff sleep
Suspended(e) == e.pc \in {"request_hook", "forward_hook", "backend", "backoff"}

\* C38: of two interleaved exchanges each sends its own request, receives the
\* backend's answer to it, and finalizes the response its own hook signals and
\* its own backend response determine; whatever the other exchange is
\* suspended in, a suspended exchange can take its next step.
C38_ExchangesIndependent ==
    \A h \in Exchanges :
        LET e == handler[h]
        IN  /\ e.pc # "idle" => e.request = PairRequest(h)
            /\ e.sent # NoSent => e.sent.path_qs = PairRequest(h).path_qs
            /\ e.backend # NoResponse => e.backend.body = PairRequest(h).path_qs
            /\ e.finished # <<>> => e.finished = <<OwnResponse(h)>>
            /\ InHook(e) => ENABLED HookReturns(h)
            /\ e.pc = "backend" => ENABLED AttemptSucceeds(h, PairBackendResponse(h))
            /\ e.pc = "backoff" => ENABLED BackoffDone(h)

\* the second exchange finalized its backend's response while the first is in
\* a backoff sleep
C38_Witness ==
    /\ handler[1].pc = "backoff"
    /\ handler[2].pc = "done"
    /\ handler[2].finished # <<>>
    /\ handler[2].finished[1].body = "/"
    /\ handler[2].fwd_signal = "NoSignal"

\* both exchanges finalized, one its hook's response and one its backend's
C38_WitnessBoth ==
    /\ handler[1].pc = "done" /\ handler[2].pc = "done"
    /\ handler[1].finished # <<>> /\ handler[1].finished[1].body = "/status?x=1"
    /\ handler[2].finished # <<>> /\ handler[2].finished[1].status = 403

\* whether v begins with pre
StartsWith(v, pre) == Len(v) >= Len(pre) /\ SubSeq(v, 1, Len(pre)) = pre

\* the url with its scheme, and nothing else, rewritten http to ws, https to wss
RewriteScheme(url) ==
    IF StartsWith(url, https_scheme)
    THEN wss_scheme \o SubSeq(url, Len(https_scheme) + 1, Len(url))
    ELSE IF StartsWith(url, http_scheme)
         THEN ws_scheme \o SubSeq(url, Len(http_scheme) + 1, Len(url))
         ELSE url

\* C37: the relay connects to the target base followed by the inbound
\* request's path and query, with the scheme alone rewritten (http to ws, https
\* to wss): path and query arrive unchanged, also when a query value contains
\* http:// or https://.
C37_TargetUrl ==
    \A i \in 1..Len(px.ws_connects) :
        px.ws_connects[i][1] = RewriteScheme(px.target) \o px.request.path_qs

\* the same for WebSocketHandler and a path and query without a url in them
C37_TargetUrlPlainQuery ==
    (px.impl = "WebSocketHandler" /\ px.request.path_qs = plain_path_qs) =>
        C37_TargetUrl

\* the same for WebSocketHandler alone
C37_TargetUrlGateway == px.impl = "WebSocketHandler" => C37_TargetUrl

C37_WitnessPlainQuery ==
    /\ px.impl = "WebSocketHandler"
    /\ px.target = secure_target_url
    /\ px.request.path_qs = plain_path_qs
    /\ px.ws_connects = <<<<wss_scheme \o <<"b">> \o plain_path_qs, "ok">>>>

\* close() has completed and clear() has not been called since
CloseCompleted(c) == c.closing_task # 0 /\ c.tasks[c.closing_task].pc = "done"

\* C32: is_ready is False before serve() has started the site, is True only
\* once the ready dispatch of serve() has completed, and is False again after
\* close() has completed.
C32_IsReadyLifecycle ==
    /\ client.start \in {"idle", "runner_setup"} => ~is_ready(client)
    /\ is_ready(client) => client.start = "served"
    /\ CloseCompleted(client) => ~is_ready(client)

\* the same without the part about close()
C32_ReadyOnlyAfterServe ==
    /\ client.start \in {"idle", "runner_setup"} => ~is_ready(client)
    /\ is_ready(client) => client.start = "served"

\* the client was started, served and was closed: every step of _close() ran
\* and is_ready is still True
C32_ClosedStillReady ==
    /\ client.start = "served"
    /\ client.clears = 0
    /\ CloseCompleted(client)
    /\ client.tasks[1].steps =
          <<"shutdown_set", "site_stop", "runner_cleanup", "http_close">>
    /\ client.callers["close1"].st = "returned"
    /\ is_ready(client)

C32_WitnessServed ==
    /\ client.start = "served"
    /\ is_ready(client)
    /\ client.site = "started"
    /\ client.closing_task = 0

\* the sessions of the pool that are open
OpenSessions == {k \in 1..Len(client.pool) : client.pool[k].state = "open"}

\* C33: no session exists before the first request; at most one session is
\* open at any time and requests made while it is open share it (a session is
\* created only for the first request and after a close); every request is
\* handed an open session, also after close(); the sessions that existed when
\* HTTPClient.close completed are closed.
C33_SessionLifecycle ==
    /\ (\A r \in BackendRequests : client.requests[r].st = "idle") =>
          session = "none" /\ client.pool = <<>>
    /\ Cardinality(OpenSessions) <= 1
    /\ Len(client.pool) <= client.closes + 1
    /\ \A r \in BackendRequests :
          client.requests[r].st # "idle" => client.requests[r].got = "open"
    /\ \A k \in OpenSessions : client.pool[k].after = client.closes
    /\ session = "open" <=> (client.pool # <<>> /\ Last(client.pool).state = "open")
    /\ session = "none" => OpenSessions = {}

\* a request made before close() used the session that close() closed, and a
\* request made after it was handed a new one
C33_Witness ==
    /\ client.closes = 1
    /\ \A r \in BackendRequests : client.requests[r].st # "idle"
    /\ Len(client.pool) = 2
    /\ client.pool[1].state = "closed" /\ client.pool[1].after = 0
    /\ client.pool[2].state = "open" /\ client.pool[2].after = 1
    /\ session = "open"

\* two requests in flight on the one open session
C33_WitnessShared ==
    /\ \A r \in BackendRequests : client.requests[r].st = "using"
    /\ Len(client.pool) = 1
    /\ session = "open"

\* the steps of _close() in their order
CloseSteps == <<"shutdown_set", "site_stop", "runner_cleanup", "http_close">>

StepPos(step) == CHOOSE i \in 1..Len(CloseSteps) : CloseSteps[i] = step

\* the steps are in the order of _close() and none is repeated
InCloseOrder(steps) ==
    \A i, j \in 1..Len(steps) : i < j => StepPos(steps[i]) < StepPos(steps[j])

\* the task ran the whole sequence
RanToEnd(c, t) ==
    /\ t.pc = "done"
    /\ t.steps # <<>>
    /\ t.steps[1] = "shutdown_set"
    /\ Last(t.steps) = "http_close"
    /\ Has(t.steps, "site_stop") <=> c.site = "stopped"
    /\ Has(t.steps, "runner_cleanup") <=> c.runner = "cleaned"

\* C39: as long as clear() has not been called, the calls of close() and the
\* one of __aexit__, sequential or overlapping, share one task: the steps of
\* _close() run once, in the order shutdown event, site, runner, HTTP session,
\* and a caller returns only when that task has run to its end.
C39_CloseOnce ==
    client.clears = 0 =>
        /\ Len(client.tasks) <= 1
        /\ \A k \in 1..Len(client.tasks) : InCloseOrder(client.tasks[k].steps)
        /\ \A who \in Closers :
              LET caller == client.callers[who]
              IN  /\ caller.st # "idle" => caller.task = 1 /\ client.closing_task = 1
                  /\ caller.st = "returned" => RanToEnd(client, client.tasks[1])

\* three callers, overlapping, returned from the one task of a started client
C39_Witness ==
    /\ client.clears = 0
    /\ \A who \in Closers : client.callers[who].st = "returned"
    /\ client.tasks = <<[pc |-> "done", steps |-> CloseSteps]>>
    /\ client.site = "stopped" /\ client.runner = "cleaned"

====
